---- MODULE Spec2Model ----
(***************************************************************************)
(* A model of ai-bom-scan: the paginated listing of organizations and      *)
(* targets (api.py), the job orchestrator process_target (api.py), the     *)
(* scan coordinator (cli.py scan) and the aggregate views of the report     *)
(* (utils/output.py, utils/html.py).  Python dicts are functions with string *)
(* domains, Python lists are sequences, None is the value None below.      *)
(* The remote service is the environment: every response is chosen when    *)
(* the request is made.                                                    *)
(***************************************************************************)
EXTENDS Integers, Sequences, FiniteSets, TLC

\* ------------------------------------------------------------- bounds
\* most targets the service lists in one run
MaxTargets == 3
\* most pages the service serves for one listing
MaxPages == 2
\* most items the service puts on one page
MaxPageSize == 2
\* most polls of one job the service answers before it must end the job
MaxPolls == 2

\* ------------------------------------------------------- Python values
None == "None"
EmptyDict == << >>
EmptyList == << >>

\* d.get(k, default)
Get(d, k, default) == IF k \in DOMAIN d THEN d[k] ELSE default

\* bool(x) of an Optional[str]
TruthyStr(s) == s # None /\ s # ""

\* bool(x) of a list or dict
Truthy(x) == DOMAIN x # {}

RECURSIVE Flatten(_)
Flatten(ss) == IF ss = << >> THEN << >> ELSE Head(ss) \o Flatten(Tail(ss))

SeqsUpTo(S, n) == UNION {[1..k -> S] : k \in 0..n}

\* ------------------------------------------------------ the remote data
OrgIds == {"o1", "o2"}

\* the organization lists a group's page can hold
OrgPages == {<< >>, <<[id |-> "o1"], [id |-> "o2"]>>}

Integration(t) == [data |-> [attributes |-> [integration_type |-> t]]]

Target(id, name, org, integ) ==
    [id |-> id,
     attributes |-> [display_name |-> name],
     relationships |-> [organization |-> [data |-> [id |-> org]]] @@ integ]

\* the targets an organization can hold. The first organization has a container
\* image, two source-code hosts and a manual upload that carries no integration
\* at all; the second has one repository, named like one of the first's
TargetsOf(org) ==
    IF org = "o1"
    THEN {Target("t1", "img", org, [integration |-> Integration("docker")]),
          Target("t2", "repoA", org, [integration |-> Integration("github")]),
          Target("t3", "repoB", org, [integration |-> Integration("gitlab")]),
          Target("t4", "upload", org, EmptyDict)}
    ELSE {Target("t5", "repoA", org, [integration |-> Integration("bitbucket-server")])}

\* ------------------------------------------------------------ artifacts
Component(name, type) == [name |-> name, type |-> type]

RootComponent == Component("Root", "application")

CompsWithRoot ==
    <<RootComponent, Component("gpt-4", "machine-learning-model"),
      Component("torch", "library")>>

CompsNoRoot == <<Component("bert", "machine-learning-model")>>

NestedDoc(comps) == [data |-> [attributes |-> [components |-> comps]]]

TopLevelDoc(comps) == [components |-> comps]

\* the documents the final fetch can return
Docs == {NestedDoc(CompsWithRoot), NestedDoc(CompsNoRoot), TopLevelDoc(CompsWithRoot)}

\* job statuses the service reports
NonTerminal == {"pending"}
Statuses == NonTerminal \cup {"finished", "errored"}

VARIABLES
    api_token, org_id, group_id,  \* Config
    include_types,                 \* --include, split at the commas; << >> if absent
    rejected_models,               \* the loaded policy's set; {} if none
    log_debug,                     \* the root logger is enabled for DEBUG
    caller,                        \* who runs process_target: "scan" or "direct"
    pc,                            \* position of the single thread of control
    exit_code,                     \* None while running, then "0" or "1"
    orgs, org_i,                   \* get_all_targets: orgs and the loop position
    url,                           \* the URL of the next GET of a listing
    targets,                       \* the listing's accumulator (orgs or targets)
    page_log,                      \* pages served to the listing under way
    n_get,                         \* GETs issued by the listing under way
    fetch_ret,                     \* what get_all_targets_from_org returned
    all_targets, all_aiboms, i,    \* scan: worklist, output, loop position
    accepted,                      \* the classifier's last answer
    target,                        \* process_target's argument
    status, job_url,               \* process_target's locals
    req_log,                       \* requests and sleeps of the job under way
    status_log,                    \* statuses read for the job under way
    pt_ret,                        \* what process_target returned or raised
    final_doc,                     \* document the final fetch of this job served
    outcomes,                      \* per worklist position, how processing ended
    submit_failed,                 \* some job submission of the run failed
    last_submit,                   \* how the most recent submission was answered
    report,                        \* what the final report showed
    views,                         \* the aggregate views the report rendered
    search_keyword,                \* search: the keyword argument
    matched_terms,                 \* what process_target_and_search returned
    found_in_targets,              \* search: the targets reported as matches
    raised                         \* the exception that ended the command, if any

vars == <<api_token, org_id, group_id, log_debug, caller, pc, exit_code, orgs,
          org_i, url, targets, page_log, n_get, fetch_ret, all_targets,
          all_aiboms, i, target, status, job_url, req_log, status_log, pt_ret,
          final_doc, outcomes, submit_failed, last_submit, report, accepted,
          include_types, rejected_models, views, search_keyword, matched_terms,
          found_in_targets, raised>>

cfgVars == <<api_token, org_id, group_id, log_debug, caller, include_types,
            rejected_models>>
searchVars == <<search_keyword, matched_terms, found_in_targets, raised>>
fetchVars == <<orgs, org_i, url, targets, page_log, n_get, fetch_ret>>
scanVars == <<all_targets, all_aiboms, i, outcomes, report, views, accepted>>
envVars == <<submit_failed, last_submit>>
ptVars == <<target, status, job_url, req_log, status_log, pt_ret, final_doc>>


\* --------------------------------------------------------------- URLs
\* a relative link as the service hands it out: the listing and its page
RelLink(kind, scope, page) == [kind |-> kind, scope |-> scope, page |-> page]

NoLink == RelLink("none", "", 0)

\* f"{self.api_url}{link}"
AbsUrl(link) == [abs |-> TRUE, link |-> link]

\* the link used as it came
RawUrl(link) == [abs |-> FALSE, link |-> link]

NoUrl == RawUrl(NoLink)

\* a page envelope {data: [...], links: {next?: ...}}
Page(data, next) ==
    [data |-> data, links |-> IF next = NoLink THEN EmptyDict ELSE [next |-> next]]

\* data.get('links', {}).get('next')
NextLinkOf(page) == Get(Get(page, "links", EmptyDict), "next", NoLink)

\* the `next` values the service may put on page k of a listing
NextChoices(link) ==
    {NoLink} \cup
    (IF link.page < MaxPages
     THEN {RelLink(link.kind, link.scope, link.page + 1)} ELSE {})

\* ------------------------------------------------------------- results
\* what process_target handed its caller
NoRet == [kind |-> "none", val |-> EmptyList, exc |-> ""]
Returned(v) == [kind |-> "value", val |-> v, exc |-> ""]
Raised(e) == [kind |-> "raise", val |-> EmptyList, exc |-> e]

NoFetchRet == [kind |-> "none", val |-> << >>]
FetchReturned(v) == [kind |-> "value", val |-> v]
FetchNone == [kind |-> "None", val |-> << >>]

NoTarget == EmptyDict

NoReport == [shown |-> "none", total |-> 0]

\* sys.exit(1), also from scan's `except Exception`
Exit1 == pc' = "exited" /\ exit_code' = "1"

\* ------------------------------------------------------------- cli.py
\* cli(): either a group or an organization must be configured
CliMain ==
    /\ pc = "cli"
    /\ IF ~TruthyStr(group_id) /\ ~TruthyStr(org_id)
       THEN Exit1
       ELSE pc' = "scan" /\ UNCHANGED exit_code
    /\ UNCHANGED <<cfgVars, searchVars, fetchVars, scanVars, envVars, ptVars>>

\* (mutant) the token is not checked
ScanValidate_NoTokenCheck ==
    /\ pc = "scan"
    /\ IF ~TruthyStr(org_id) /\ ~TruthyStr(group_id)
       THEN Exit1
       ELSE pc' = "get_all_targets" /\ UNCHANGED exit_code
    /\ UNCHANGED <<cfgVars, searchVars, fetchVars, scanVars, envVars, ptVars>>

\* scan(): the checks made before the client is created
ScanValidate ==
    /\ pc = "scan"
    /\ IF ~TruthyStr(api_token)
       THEN Exit1
       ELSE IF ~TruthyStr(org_id) /\ ~TruthyStr(group_id)
            THEN Exit1
            ELSE pc' = "get_all_targets" /\ UNCHANGED exit_code
    /\ UNCHANGED <<cfgVars, searchVars, fetchVars, scanVars, envVars, ptVars>>

\* ------------------------------------------------- api.py, the listings
\* (mutant) a configured organization takes precedence over the group
GetAllTargets_OrgFirst ==
    /\ pc = "get_all_targets"
    /\ IF TruthyStr(group_id) /\ ~TruthyStr(org_id)
       THEN /\ url' = AbsUrl(RelLink("orgs", group_id, 1))
            /\ orgs' = << >>
            /\ pc' = "orgs_get"
       ELSE /\ orgs' = <<[id |-> org_id]>>
            /\ url' = NoUrl
            /\ pc' = "org_loop"
    /\ org_i' = 1
    /\ n_get' = 0
    /\ UNCHANGED <<cfgVars, searchVars,
                   exit_code, targets, page_log, fetch_ret, scanVars, envVars, ptVars>>

\* get_all_targets(): resolve the scope into organizations
GetAllTargets ==
    /\ pc = "get_all_targets"
    /\ IF TruthyStr(group_id)
       THEN /\ url' = AbsUrl(RelLink("orgs", group_id, 1))
            /\ orgs' = << >>
            /\ pc' = "orgs_get"
       ELSE /\ orgs' = <<[id |-> org_id]>>
            /\ url' = NoUrl
            /\ pc' = "org_loop"
    /\ org_i' = 1
    /\ n_get' = 0
    /\ UNCHANGED <<cfgVars, searchVars,
                   exit_code, targets, page_log, fetch_ret, scanVars, envVars, ptVars>>

\* (mutant) the page replaces the accumulator instead of extending it
ExtendWithPage_Replace(acc, page) == Get(page, "data", EmptyList)

\* orgs.extend(data.get('data', [])) and targets.extend(data.get('data', []))
ExtendWithPage(acc, page) == acc \o Get(page, "data", EmptyList)

\* get_all_orgs_from_group(): one page answered 2xx
OrgsGetOk ==
    /\ pc = "orgs_get"
    /\ url.abs
    /\ \E data \in OrgPages, next \in NextChoices(url.link) :
         LET page == Page(data, next) IN
           /\ orgs' = ExtendWithPage(orgs, page)
           /\ page_log' = Append(page_log, page)
           /\ url' = RawUrl(NextLinkOf(page))
           /\ pc' = IF url' # NoUrl THEN "orgs_get" ELSE "org_loop"
    /\ n_get' = n_get + 1
    /\ UNCHANGED <<cfgVars, searchVars,
                   exit_code, org_i, targets, fetch_ret, scanVars, envVars, ptVars>>

\* get_all_orgs_from_group(): raise_for_status() raises, nothing catches it
\* before scan's `except Exception`
OrgsGetError ==
    /\ pc = "orgs_get"
    /\ url.abs
    /\ n_get' = n_get + 1
    /\ Exit1
    /\ UNCHANGED <<cfgVars, searchVars,
                   orgs, org_i, url, targets, page_log, fetch_ret, scanVars, envVars, ptVars>>

\* get_all_orgs_from_group(): the relative next link is requested as it came,
\* requests raises MissingSchema and no request leaves the client
OrgsGetInvalidUrl ==
    /\ pc = "orgs_get"
    /\ ~url.abs
    /\ Exit1
    /\ UNCHANGED <<cfgVars, searchVars,
                   orgs, org_i, url, targets, page_log, n_get, fetch_ret, scanVars, envVars, ptVars>>

\* get_all_targets_from_org(): org.get('id'), or the configured organization
OrgIdOf(org) == IF Truthy(org) THEN Get(org, "id", None) ELSE org_id

\* get_all_targets(): the loop over orgs; each turn calls
\* get_all_targets_from_org, whose first URL is built here
OrgLoop ==
    /\ pc = "org_loop"
    /\ IF org_i > Len(orgs)
       THEN /\ pc' = "check_targets"
            /\ UNCHANGED <<url, targets, page_log, n_get>>
       ELSE /\ url' = AbsUrl(RelLink("targets", OrgIdOf(orgs[org_i]), 1))
            /\ targets' = << >>
            /\ page_log' = << >>
            /\ n_get' = 0
            /\ pc' = "targets_get"
    /\ UNCHANGED <<cfgVars, searchVars,
                   exit_code, orgs, org_i, fetch_ret, scanVars, envVars, ptVars>>

\* the URL requested after a page with this next link
NextTargetsUrl(next_link) == IF next_link # NoLink THEN AbsUrl(next_link) ELSE NoUrl

\* get_all_targets_from_org(): one page answered 2xx
TargetsGetOk ==
    /\ pc = "targets_get"
    /\ \E data \in SeqsUpTo(TargetsOf(url.link.scope), MaxPageSize),
          next \in NextChoices(url.link) :
         /\ Len(all_targets) + Len(targets) + Len(data) <= MaxTargets
         /\ LET page == Page(data, next) IN
              /\ targets' = ExtendWithPage(targets, page)
              /\ page_log' = Append(page_log, page)
              /\ url' = NextTargetsUrl(NextLinkOf(page))
              /\ IF url' # NoUrl
                 THEN pc' = "targets_get" /\ UNCHANGED fetch_ret
                 ELSE pc' = "org_return" /\ fetch_ret' = FetchReturned(targets')
    /\ n_get' = n_get + 1
    /\ UNCHANGED <<cfgVars, searchVars, exit_code, orgs, org_i, scanVars, envVars, ptVars>>

\* (mutant) the except clause returns the items fetched so far
FetchFailure_Partial(acc) == FetchReturned(acc)

\* what get_all_targets_from_org returns when a page request fails
FetchFailure(acc) == FetchNone

\* get_all_targets_from_org(): the request fails (transport, or non-2xx through
\* raise_for_status); the except clause returns None
TargetsGetFail ==
    /\ pc = "targets_get"
    /\ n_get' = n_get + 1
    /\ fetch_ret' = FetchFailure(targets)
    /\ pc' = "org_return"
    /\ UNCHANGED <<cfgVars, searchVars,
                   exit_code, orgs, org_i, url, targets, page_log, scanVars, envVars, ptVars>>

\* (mutant) `targets.extend(... or [])`: a failed listing counts as empty
ExtendTargets_SkipNone ==
    /\ pc = "org_return"
    /\ IF fetch_ret.kind = "None"
       THEN UNCHANGED <<all_targets, page_log, n_get>>
       ELSE /\ all_targets' = all_targets \o fetch_ret.val
            /\ page_log' = << >>
            /\ n_get' = 0
    /\ org_i' = org_i + 1
    /\ pc' = "org_loop"
    /\ fetch_ret' = NoFetchRet
    /\ targets' = << >>
    /\ url' = NoUrl
    /\ UNCHANGED <<cfgVars, searchVars, exit_code, orgs, all_aiboms, i, outcomes, envVars,
                   report, views, accepted, ptVars>>

\* get_all_targets(): targets.extend(<what the listing returned>); extend(None)
\* raises TypeError, which scan's `except Exception` turns into exit 1
ExtendTargets ==
    /\ pc = "org_return"
    /\ IF fetch_ret.kind = "None"
       THEN /\ Exit1
            /\ UNCHANGED <<all_targets, org_i, page_log, n_get>>
       ELSE /\ all_targets' = all_targets \o fetch_ret.val
            /\ org_i' = org_i + 1
            /\ page_log' = << >>
            /\ n_get' = 0
            /\ pc' = "org_loop"
            /\ UNCHANGED exit_code
    /\ fetch_ret' = NoFetchRet
    /\ targets' = << >>
    /\ url' = NoUrl
    /\ UNCHANGED <<cfgVars, searchVars, orgs, all_aiboms, i, outcomes, envVars, report, views,
                   accepted, ptVars>>

\* ------------------------------------------------------ the classifier
\* target.get('relationships', {}).get('integration', {}).get('data', {})
\*       .get('attributes', {}).get('integration_type')
IntegrationTypeOf(t) ==
    Get(Get(Get(Get(Get(t, "relationships", EmptyDict),
                    "integration", EmptyDict),
                "data", EmptyDict),
            "attributes", EmptyDict),
        "integration_type", None)

\* (mutant) scan keeps the shorter list of main.py
ScanAllowList_Base ==
    {"github", "github-enterprise", "gitlab", "azure-repos", "bitbucket-cloud"}

\* the list of cli.py scan
ScanAllowList ==
    {"github", "github-enterprise", "github-cloud-app", "github-server-app",
     "gitlab", "azure-repos", "bitbucket-cloud", "bitbucket-server",
     "bitbucket-cloud-app"}

\* the list of main.py
MainAllowList ==
    {"github", "github-enterprise", "gitlab", "azure-repos", "bitbucket-cloud"}

IsSupportedScan(t) == IntegrationTypeOf(t) \in ScanAllowList

IsSupportedMain(t) == IntegrationTypeOf(t) \in MainAllowList

\* the classification at the head of the loop body of scan (cli.py) and of
\* main (main.py), applied to one target
Classify ==
    /\ pc = "classify"
    /\ accepted' = IF caller = "main" THEN IsSupportedMain(target)
                   ELSE IsSupportedScan(target)
    /\ pc' = "classified"
    /\ UNCHANGED <<cfgVars, searchVars, exit_code, fetchVars, all_targets, all_aiboms, i,
                   outcomes, report, views, envVars, ptVars>>

\* target['attributes'].get('display_name', 'Unknown Name')
TargetNameOf(t) == Get(t["attributes"], "display_name", "Unknown Name")

\* --------------------------------------------- api.py, process_target
\* the entries of a job's log: each request with how it was answered ("2xx",
\* "422", or "fail" for a transport failure or another non-2xx status), and
\* each sleep
PostReq(org, tid, code) ==
    [op |-> "post", org |-> org, target_id |-> tid, code |-> code]
SleepReq(secs) == [op |-> "sleep", secs |-> secs]
GetReq(u, redirects, code) ==
    [op |-> "get", url |-> u, allow_redirects |-> redirects, code |-> code]

\* (mutant) the POST goes to the configured organization
PostOrgOf_Configured(t) == org_id

\* org_id = target['relationships']['organization']['data']['id'], the
\* organization of post_url
PostOrgOf(t) == t["relationships"]["organization"]["data"]["id"]

\* src/main.py: the organization of post_url is the scanner's own, the one whose
\* targets it listed
LegacyPostOrgOf(t) == org_id

\* the requests of one kind in a job's log
PollsIn(log) == SelectSeq(log, LAMBDA r : r.op = "get" /\ ~r.allow_redirects)
FinalsIn(log) == SelectSeq(log, LAMBDA r : r.op = "get" /\ r.allow_redirects)
PostsIn(log) == SelectSeq(log, LAMBDA r : r.op = "post")
SleepsIn(log) == SelectSeq(log, LAMBDA r : r.op = "sleep")

\* the self link the service gives the job of a target
SelfLinkOf(t) == RelLink("ai_bom_job", t["id"], 1)

\* `while status not in ["finished", "errored"]`
IsTerminal(s) == s \in {"finished", "errored"}

\* logging.debug(msg, file=sys.stderr) in an except clause: Logger._log takes
\* no `file`, so the call raises TypeError when DEBUG is enabled and does
\* nothing otherwise; then `return []`
FailureResult(debug) == IF debug THEN Raised("TypeError") ELSE Returned(EmptyList)

\* (mutant) only "finished" ends the poll loop
AfterStatus_OnlyFinishedEnds(s) == IF s # "finished" THEN "pt_sleep" ELSE "pt_final"

\* where control goes once a status has been read: the loop test of the poll
\* loop and the `if status == "errored"` after it
AfterStatus(s) ==
    IF ~IsTerminal(s) THEN "pt_sleep"
    ELSE IF s = "errored" THEN "pt_return" ELSE "pt_final"

\* (mutant) the 422 answer is taken for a created job and polled
PtSubmit422_Polls ==
    /\ pc = "pt_submit"
    /\ req_log' = Append(req_log,
                         PostReq(PostOrgOf(target),
                                 target["id"], "422"))
    /\ last_submit' = "422"
    /\ job_url' = AbsUrl(SelfLinkOf(target))
    /\ pc' = "pt_sleep"
    /\ UNCHANGED <<cfgVars, searchVars, exit_code, fetchVars, scanVars, submit_failed, target,
                   status, status_log, pt_ret, final_doc>>

\* the POST is answered 422: debug line, `return []`
PtSubmit422 ==
    /\ pc = "pt_submit"
    /\ req_log' = Append(req_log,
                         PostReq(PostOrgOf(target),
                                 target["id"], "422"))
    /\ last_submit' = "422"
    /\ pt_ret' = Returned(EmptyList)
    /\ pc' = "pt_return"
    /\ UNCHANGED <<cfgVars, searchVars,
                   exit_code, fetchVars, scanVars, submit_failed, target, status,
                   job_url, status_log, final_doc>>

\* the POST fails in transport or is answered another non-2xx status
PtSubmitFail ==
    /\ pc = "pt_submit"
    /\ req_log' = Append(req_log,
                         PostReq(PostOrgOf(target),
                                 target["id"], "fail"))
    /\ last_submit' = "fail"
    /\ submit_failed' = TRUE
    /\ pt_ret' = FailureResult(log_debug)
    /\ pc' = "pt_return"
    /\ UNCHANGED <<cfgVars, searchVars, exit_code, fetchVars, scanVars,  target, status,
                   job_url, status_log, final_doc>>

\* the POST is answered 2xx with the job's self link and first status
PtSubmitOk ==
    /\ pc = "pt_submit"
    /\ req_log' = Append(req_log,
                         PostReq(PostOrgOf(target),
                                 target["id"], "2xx"))
    /\ \E s \in Statuses :
         /\ status' = s
         /\ status_log' = Append(status_log, s)
         /\ pc' = AfterStatus(s)
         /\ pt_ret' = IF pc' = "pt_return" THEN Returned(EmptyList) ELSE pt_ret
    /\ last_submit' = "2xx"
    /\ job_url' = AbsUrl(SelfLinkOf(target))
    /\ UNCHANGED <<cfgVars, searchVars,
                   exit_code, fetchVars, scanVars, submit_failed, target, final_doc>>

\* the seconds slept before each poll
PollSleep == 2

\* (mutant) the poll loop does not sleep
PtSleep_NoSleep ==
    /\ pc = "pt_sleep"
    /\ pc' = "pt_poll"
    /\ UNCHANGED <<cfgVars, searchVars, exit_code, fetchVars, scanVars, envVars, target, status,
                   job_url, req_log, status_log, pt_ret, final_doc>>

\* time.sleep(2) at the top of the poll loop
PtSleep ==
    /\ pc = "pt_sleep"
    /\ req_log' = Append(req_log, SleepReq(PollSleep))
    /\ pc' = "pt_poll"
    /\ UNCHANGED <<cfgVars, searchVars, exit_code, fetchVars, scanVars, envVars, target, status,
                   job_url, status_log, pt_ret, final_doc>>

\* (mutant) the client gives up after MaxPolls statuses that are not terminal
PtPollOk_Capped ==
    /\ pc = "pt_poll"
    /\ req_log' = Append(req_log, GetReq(job_url, FALSE, "2xx"))
    /\ \E s \in Statuses :
         /\ ~IsTerminal(s) => Len(status_log) < MaxPolls
         /\ status' = s
         /\ status_log' = Append(status_log, s)
         /\ pc' = IF ~IsTerminal(s) /\ Len(status_log') >= MaxPolls
                  THEN "pt_return" ELSE AfterStatus(s)
         /\ pt_ret' = IF pc' = "pt_return" THEN Returned(EmptyList) ELSE pt_ret
    /\ UNCHANGED <<cfgVars, searchVars,
                   exit_code, fetchVars, scanVars, envVars, target, job_url, final_doc>>

\* the poll GET (no redirects) is answered 2xx with a status
PtPollOk ==
    /\ pc = "pt_poll"
    /\ req_log' = Append(req_log, GetReq(job_url, FALSE, "2xx"))
    /\ \E s \in Statuses :
         /\ ~IsTerminal(s) => Len(status_log) < MaxPolls
         /\ status' = s
         /\ status_log' = Append(status_log, s)
         /\ pc' = AfterStatus(s)
         /\ pt_ret' = IF pc' = "pt_return" THEN Returned(EmptyList) ELSE pt_ret
    /\ UNCHANGED <<cfgVars, searchVars,
                   exit_code, fetchVars, scanVars, envVars, target, job_url, final_doc>>

\* (mutant) a failed poll is retried after the next sleep
PtPollFail_Retry ==
    /\ pc = "pt_poll"
    /\ Len(req_log) < 2 * MaxPolls + 4
    /\ req_log' = Append(req_log, GetReq(job_url, FALSE, "fail"))
    /\ pc' = "pt_sleep"
    /\ UNCHANGED <<cfgVars, searchVars, exit_code, fetchVars, scanVars, envVars, target, status,
                   job_url, status_log, pt_ret, final_doc>>

\* the poll GET fails
PtPollFail ==
    /\ pc = "pt_poll"
    /\ req_log' = Append(req_log, GetReq(job_url, FALSE, "fail"))
    /\ pt_ret' = FailureResult(log_debug)
    /\ pc' = "pt_return"
    /\ UNCHANGED <<cfgVars, searchVars, exit_code, fetchVars, scanVars, envVars, target, status,
                   job_url, status_log, final_doc>>

\* (mutant) the list of matched terms is returned, as main.py does
FinalResult_MatchedTerms(doc) == Returned(EmptyList)

\* `return final_response.json()`
FinalResult(doc) == Returned(doc)

\* the final GET (redirects followed) is answered 2xx: return its document
PtFinalOk ==
    /\ pc = "pt_final"
    /\ req_log' = Append(req_log, GetReq(job_url, TRUE, "2xx"))
    /\ \E doc \in Docs :
         /\ final_doc' = doc
         /\ pt_ret' = FinalResult(doc)
    /\ pc' = "pt_return"
    /\ UNCHANGED <<cfgVars, searchVars, exit_code, fetchVars, scanVars, envVars, target, status,
                   job_url, status_log>>

\* the final GET fails
PtFinalFail ==
    /\ pc = "pt_final"
    /\ req_log' = Append(req_log, GetReq(job_url, TRUE, "fail"))
    /\ pt_ret' = FailureResult(log_debug)
    /\ pc' = "pt_return"
    /\ UNCHANGED <<cfgVars, searchVars, exit_code, fetchVars, scanVars, envVars, target, status,
                   job_url, status_log, final_doc>>


\* ------------------------------------------- utils/output.py aggregate
\* both artifact shapes: components under data.attributes, or at the top
ComponentsOf(aibom_data) ==
    IF "data" \in DOMAIN aibom_data
    THEN Get(Get(Get(aibom_data, "data", EmptyDict), "attributes", EmptyDict),
             "components", EmptyList)
    ELSE Get(aibom_data, "components", EmptyList)

\* (mutant) every component named Root is taken for the synthetic one
IsRoot_NameOnly(c) == Get(c, "name", None) = "Root"

\* the synthetic Root application component
IsRoot(c) == Get(c, "name", None) = "Root" /\ Get(c, "type", None) = "application"

\* (mutant) the Root component is counted like any other
CountedComponents_All(entry) == ComponentsOf(Get(entry, "aibom_data", EmptyDict))

\* the components of one scan-output entry that the summary table lists
\* (no --include filter)
CountedComponents(entry) ==
    SelectSeq(ComponentsOf(Get(entry, "aibom_data", EmptyDict)),
              LAMBDA c : ~IsRoot(c))

RECURSIVE TotalComponents(_)
TotalComponents(aiboms) ==
    IF aiboms = << >> THEN 0
    ELSE Len(CountedComponents(Head(aiboms))) + TotalComponents(Tail(aiboms))

\* ---------------------------- utils/output.py and utils/html.py, the views
\* most entries of a scan output handed to the views on its own
MaxEntries == 2

\* s.strip().lower(), on the strings that occur here
StripLower(s) ==
    CASE s = "ML Models" -> "ml models"
      [] s = " library" -> "library"
      [] s = "GPT-4 " -> "gpt-4"
      [] OTHER -> s

\* user_type_mapping
UserTypeMapping ==
    [k \in {"ml model", "ml models", "machine learning model",
            "machine learning models"} |-> "machine-learning-model"]
    @@ [k \in {"dataset", "datasets", "data"} |-> "data"]
    @@ [k \in {"library", "libraries"} |-> "library"]
    @@ [k \in {"application", "applications", "app", "apps"} |-> "application"]

InternalTypes == {"machine-learning-model", "data", "library", "application"}

\* included_internal_types: the internal types named by --include; unknown
\* terms are ignored. {} also when --include is absent
IncludedInternalTypes(inc) ==
    LET terms == {StripLower(inc[k]) : k \in DOMAIN inc} IN
      {UserTypeMapping[t] : t \in terms \cap DOMAIN UserTypeMapping}
      \cup ((terms \ DOMAIN UserTypeMapping) \cap InternalTypes)

\* `if included_internal_types and comp_type not in included_internal_types:
\*      continue`, negated
PassesInclude(c, types) == types = {} \/ Get(c, "type", "unknown") \in types

\* type_mapping.get(comp_type, comp_type.title())
FormattedType(t) ==
    CASE t = "machine-learning-model" -> "ML Model"
      [] t = "data" -> "Dataset"
      [] t = "library" -> "Library"
      [] t = "application" -> "Application"
      [] t = "unknown" -> "Unknown"
      [] OTHER -> t

\* one row of components_data
ComponentRow(entry, c) ==
    [name |-> Get(c, "name", "Unknown Component"),
     target_name |-> Get(entry, "target_name", "Unknown Target"),
     type |-> FormattedType(Get(c, "type", "unknown"))]

\* display_aibom_summary_all: components_data, in collection order (the table
\* shows these rows sorted by name or grouped by repository)
ConsoleComponentsData(aiboms, types) ==
    Flatten([k \in 1..Len(aiboms) |->
        LET kept == SelectSeq(CountedComponents(aiboms[k]),
                              LAMBDA c : PassesInclude(c, types))
        IN [j \in 1..Len(kept) |-> ComponentRow(aiboms[k], kept[j])]])

\* generate_html_report: components_data
HtmlComponentsData(aiboms, types) ==
    Flatten([k \in 1..Len(aiboms) |->
        LET kept == SelectSeq(ComponentsOf(Get(aiboms[k], "aibom_data", EmptyDict)),
                              LAMBDA c : ~IsRoot(c) /\ PassesInclude(c, types))
        IN [j \in 1..Len(kept) |-> ComponentRow(aiboms[k], kept[j])]])

\* component_types: per component type, how many components were kept
ComponentTypes(aiboms, types) ==
    LET kept == Flatten([k \in 1..Len(aiboms) |->
                    SelectSeq(ComponentsOf(Get(aiboms[k], "aibom_data", EmptyDict)),
                              LAMBDA c : ~IsRoot(c) /\ PassesInclude(c, types))])
    IN [t \in {Get(kept[j], "type", "unknown") : j \in DOMAIN kept} |->
           Cardinality({j \in DOMAIN kept : Get(kept[j], "type", "unknown") = t})]

\* _display_policy_validation and _generate_policy_validation_html:
\* forbidden_found
ForbiddenFound(aiboms, rejected) ==
    Flatten([k \in 1..Len(aiboms) |->
        LET hits == SelectSeq(ComponentsOf(Get(aiboms[k], "aibom_data", EmptyDict)),
                       LAMBDA c : /\ ~IsRoot(c)
                                  /\ Get(c, "type", None) = "machine-learning-model"
                                  /\ StripLower(Get(c, "name", "")) \in rejected)
        IN [j \in 1..Len(hits) |->
               [model_name |-> Get(hits[j], "name", "Unknown Model"),
                target_name |-> Get(aiboms[k], "target_name", "Unknown Target")]]])

\* _generate_repositories_list_html: repositories_data, in collection order
RepositoriesData(aiboms) ==
    [k \in 1..Len(aiboms) |->
        [name |-> Get(aiboms[k], "target_name", "Unknown Target"),
         ai_component_count |->
            Len(SelectSeq(ComponentsOf(Get(aiboms[k], "aibom_data", EmptyDict)),
                          LAMBDA c : ~IsRoot(c)))]]

\* nothing rendered
NoViews ==
    [console |-> "none", table |-> << >>, total |-> 0, types |-> << >>,
     forbidden |-> << >>, html |-> "none", html_table |-> << >>, html_total |-> 0,
     html_types |-> << >>, html_forbidden |-> << >>, repositories |-> << >>]

\* display_aibom_summary_all(all_aiboms, include, rejected_models) and
\* generate_html_report(all_aiboms, include, rejected_models) on a non-empty
\* scan output. The console returns before any view when --include names no
\* valid type; the HTML report then applies no filter
RenderViews(aiboms, inc, rejected) ==
    LET types == IncludedInternalTypes(inc)
        invalid == Truthy(inc) /\ types = {}
    IN [console |-> IF invalid THEN "no_valid_types" ELSE "summary",
        table |-> IF invalid THEN << >> ELSE ConsoleComponentsData(aiboms, types),
        total |-> IF invalid THEN 0 ELSE Len(ConsoleComponentsData(aiboms, types)),
        types |-> IF invalid THEN << >> ELSE ComponentTypes(aiboms, types),
        forbidden |-> IF invalid \/ rejected = {} THEN << >>
                      ELSE ForbiddenFound(aiboms, rejected),
        html |-> "report",
        html_table |-> HtmlComponentsData(aiboms, types),
        html_total |-> Len(HtmlComponentsData(aiboms, types)),
        html_types |-> ComponentTypes(aiboms, types),
        html_forbidden |-> IF rejected = {} THEN << >>
                           ELSE ForbiddenFound(aiboms, rejected),
        repositories |-> RepositoriesData(aiboms)]

\* ------------------------------------------------- cli.py, the scan loop
\* (mutant) an empty worklist is scanned like any other
CheckTargets_EmptyContinues ==
    /\ pc = "check_targets"
    /\ all_aiboms' = << >>
    /\ pc' = "loop" /\ i' = 1 /\ UNCHANGED exit_code
    /\ UNCHANGED <<cfgVars, searchVars,
                   fetchVars, all_targets, outcomes, envVars, report, views,
                   accepted, ptVars>>

\* scan(): `if not all_targets: sys.exit(1)`
CheckTargets ==
    /\ pc = "check_targets"
    /\ all_aiboms' = << >>
    /\ IF ~Truthy(all_targets)
       THEN Exit1 /\ UNCHANGED i
       ELSE pc' = "loop" /\ i' = 1 /\ UNCHANGED exit_code
    /\ UNCHANGED <<cfgVars, searchVars,
                   fetchVars, all_targets, outcomes, envVars, report, views,
                   accepted, ptVars>>

\* the record kept of one worklist position: whether process_target ran and
\* what it returned
Skipped == [how |-> "skipped", val |-> EmptyList]
Processed(ret) ==
    [how |-> IF ret.kind = "raise" THEN "raised" ELSE "returned", val |-> ret.val]

\* (mutant) the worklist is walked from its end: `reversed(all_targets)` under
\* the same counter
ScanNext_Reversed ==
    /\ pc = "loop"
    /\ IF i > Len(all_targets)
       THEN /\ pc' = "report"
            /\ UNCHANGED <<i, outcomes, accepted, ptVars>>
       ELSE /\ accepted' = IsSupportedScan(all_targets[Len(all_targets) + 1 - i])
            /\ IF accepted'
               THEN /\ target' = all_targets[Len(all_targets) + 1 - i]
                    /\ pc' = "pt_submit"
                    /\ UNCHANGED <<i, outcomes, status, job_url, req_log,
                                   status_log, pt_ret, final_doc>>
               ELSE /\ outcomes' = Append(outcomes, Skipped)
                    /\ i' = i + 1
                    /\ pc' = "loop"
                    /\ UNCHANGED ptVars
    /\ UNCHANGED <<cfgVars, searchVars, exit_code, fetchVars, all_targets, all_aiboms,
                   envVars, report, views>>

\* the head of the loop body: classify the target, then call process_target
\* or skip; past the last target, go on to the report
ScanNext ==
    /\ pc = "loop"
    /\ IF i > Len(all_targets)
       THEN /\ pc' = "report"
            /\ UNCHANGED <<i, outcomes, accepted, ptVars>>
       ELSE /\ accepted' = IsSupportedScan(all_targets[i])
            /\ IF accepted'
               THEN /\ target' = all_targets[i]
                    /\ pc' = "pt_submit"
                    /\ UNCHANGED <<i, outcomes, status, job_url, req_log,
                                   status_log, pt_ret, final_doc>>
               ELSE /\ outcomes' = Append(outcomes, Skipped)
                    /\ i' = i + 1
                    /\ pc' = "loop"
                    /\ UNCHANGED ptVars
    /\ UNCHANGED <<cfgVars, searchVars, exit_code, fetchVars, all_targets, all_aiboms,
                   envVars, report, views>>

\* aibom_data['data']['attributes']['components'] can be evaluated
HasNestedComponents(doc) ==
    /\ "data" \in DOMAIN doc
    /\ "attributes" \in DOMAIN doc["data"]
    /\ "components" \in DOMAIN doc["data"]["attributes"]

\* the entry appended to all_aiboms
Entry(name, doc) == [target_name |-> name, aibom_data |-> doc]

\* all_aiboms after process_target returned `doc` for target t
AppendResult(aiboms, t, doc) == Append(aiboms, Entry(TargetNameOf(t), doc))

\* component_count = len(aibom_data['data']['attributes']['components']) - 1,
\* the count printed on the target's line
ComponentCount(aibom_data) ==
    Len(aibom_data["data"]["attributes"]["components"]) - 1

\* what the loop body did with the result, with the count it printed when it
\* appended an entry
Outcome(ret) ==
    IF ret.kind = "value" /\ Truthy(ret.val) /\ HasNestedComponents(ret.val)
    THEN Processed(ret) @@ [count |-> ComponentCount(ret.val)]
    ELSE Processed(ret)

\* the rest of the loop body, once process_target has returned or raised:
\* an exception, also the KeyError of the component count on a document
\* without data.attributes.components, reaches `except Exception`: exit 1
ScanHandleResult ==
    /\ pc = "pt_return"
    /\ caller = "scan"
    /\ IF pt_ret.kind = "raise"
       THEN Exit1 /\ UNCHANGED <<all_aiboms, i>>
       ELSE IF Truthy(pt_ret.val)
            THEN IF HasNestedComponents(pt_ret.val)
                 THEN /\ all_aiboms' = AppendResult(all_aiboms, target, pt_ret.val)
                      /\ i' = i + 1
                      /\ pc' = "loop"
                      /\ UNCHANGED exit_code
                 ELSE Exit1 /\ UNCHANGED <<all_aiboms, i>>
            ELSE /\ i' = i + 1
                 /\ pc' = "loop"
                 /\ UNCHANGED <<all_aiboms, exit_code>>
    /\ outcomes' = Append(outcomes, Outcome(pt_ret))
    /\ target' = NoTarget
    /\ status' = None
    /\ job_url' = NoUrl
    /\ req_log' = << >>
    /\ status_log' = << >>
    /\ pt_ret' = NoRet
    /\ final_doc' = EmptyDict
    /\ UNCHANGED <<cfgVars, searchVars, fetchVars, all_targets, submit_failed, last_submit,
                   report, views, accepted>>

\* the final report: the summary of all_aiboms, or "No AI components found"
Report ==
    /\ pc = "report"
    /\ views' = IF Truthy(all_aiboms)
                THEN RenderViews(all_aiboms, include_types, rejected_models)
                ELSE NoViews
    /\ report' = IF Truthy(all_aiboms)
                 THEN [shown |-> views'.console, total |-> views'.total]
                 ELSE [shown |-> "no_components", total |-> 0]
    /\ pc' = "done"
    /\ exit_code' = "0"
    /\ UNCHANGED <<cfgVars, searchVars, fetchVars, all_targets, all_aiboms, i, outcomes,
                   envVars, accepted, ptVars>>


\* ------------------------------------- api.py, process_target_and_search
\* search_keyword.split(','), for the keywords in play
SplitComma(keyword) ==
    CASE keyword = "bert" -> <<"bert">>
      [] keyword = "bert," -> <<"bert", "">>
      [] keyword = "GPT-4 ,torch" -> <<"GPT-4 ", "torch">>
      [] OTHER -> <<keyword>>

\* search_terms = [term.strip().lower() for term in search_keyword.split(',')]
SearchTerms(keyword) ==
    [k \in DOMAIN SplitComma(keyword) |-> StripLower(SplitComma(keyword)[k])]

\* the words of str(aibom).lower() for a document: its keys and the names and
\* types of its components
WordsOf(aibom) ==
    LET comps == ComponentsOf(aibom) IN
      {"components", "name", "type"}
      \cup {StripLower(Get(comps[k], "name", "name")) : k \in DOMAIN comps}
      \cup {Get(comps[k], "type", "type") : k \in DOMAIN comps}

\* `term in bom_content_lower`, where bom_content = str(aibom): the empty
\* string is a substring of every string, and str([]) is "[]"
TermInBom(term, aibom) ==
    IF term = "" THEN TRUE
    ELSE IF aibom = EmptyList THEN term \in {"[", "]", "[]"}
    ELSE term \in WordsOf(aibom)

\* matched_terms, in the order of the search terms
MatchedTerms(aibom, keyword) ==
    SelectSeq(SearchTerms(keyword), LAMBDA term : TermInBom(term, aibom))

\* process_target_and_search(), after process_target has returned; an
\* exception of process_target passes through
PtsSearch ==
    /\ pc = "pt_return"
    /\ caller = "process_target_and_search"
    /\ IF pt_ret.kind = "raise"
       THEN raised' = pt_ret.exc /\ UNCHANGED matched_terms
       ELSE /\ matched_terms' = MatchedTerms(pt_ret.val, search_keyword)
            /\ UNCHANGED raised
    /\ pc' = "pts_return"
    /\ UNCHANGED <<cfgVars, search_keyword, found_in_targets, exit_code, fetchVars,
                   scanVars, envVars, ptVars>>

\* ----------------------------------------------------------- search.py
\* search(): both SNYK_ORG_ID and SNYK_TOKEN must be set
SearchPreflight ==
    /\ pc = "search"
    /\ IF ~(TruthyStr(org_id) /\ TruthyStr(api_token))
       THEN Exit1
       ELSE pc' = "get_all_targets" /\ UNCHANGED exit_code
    /\ UNCHANGED <<cfgVars, searchVars, fetchVars, scanVars, envVars, ptVars>>

\* search(): `if not all_targets: sys.exit(1)`, then found_in_targets = []
SearchCheckTargets ==
    /\ pc = "check_targets"
    /\ caller = "search"
    /\ IF ~Truthy(all_targets)
       THEN Exit1 /\ UNCHANGED i
       ELSE pc' = "search_loop" /\ i' = 1 /\ UNCHANGED exit_code
    /\ found_in_targets' = << >>
    /\ UNCHANGED <<cfgVars, search_keyword, matched_terms, raised, fetchVars,
                   all_targets, all_aiboms, outcomes, report, views, accepted,
                   envVars, ptVars>>

\* config.py: the fields, properties and methods of Config
ConfigAttrs ==
    {"api_token", "org_id", "group_id", "api_url", "api_version", "debug",
     "base_api_url", "headers", "validate", "get_aibom_url", "get_aibom_job_url",
     "get_aibom_result_url"}

\* search(): the head of `for target in all_targets` and the first statements
\* of its body. After the loop comes the "Scan Complete" report. In the body,
\* integration_type is read from the target, then the test
\* `integration_type in config.supported_integrations` looks up an attribute
\* Config does not have: AttributeError, which nothing catches, ends the
\* command with a traceback and exit status 1
SearchNext ==
    /\ pc = "search_loop"
    /\ IF i > Len(all_targets)
       THEN /\ pc' = "search_done"
            /\ exit_code' = "0"
            /\ UNCHANGED <<raised, accepted>>
       ELSE /\ accepted' = FALSE
            /\ "supported_integrations" \notin ConfigAttrs
            /\ raised' = "AttributeError"
            /\ Exit1
    /\ UNCHANGED <<cfgVars, search_keyword, matched_terms, found_in_targets,
                   fetchVars, all_targets, all_aiboms, i, outcomes, report, views,
                   envVars, ptVars>>

\* ------------------------------------------------------ specifications
Idle ==
    /\ exit_code = None
    /\ orgs = << >> /\ org_i = 1 /\ url = NoUrl /\ targets = << >>
    /\ page_log = << >> /\ n_get = 0 /\ fetch_ret = NoFetchRet
    /\ all_targets = << >> /\ all_aiboms = << >> /\ i = 1
    /\ status = None /\ job_url = NoUrl /\ req_log = << >> /\ status_log = << >>
    /\ pt_ret = NoRet /\ final_doc = EmptyDict /\ outcomes = << >>
    /\ submit_failed = FALSE /\ last_submit = "" /\ accepted = FALSE
    /\ report = NoReport
    /\ views = NoViews
    /\ matched_terms = << >> /\ found_in_targets = << >> /\ raised = ""

\* the scan command under any configuration of token and scope, without
\* --include and --policy-file; cli.py never configures logging, so the root
\* logger stays at WARNING
Init ==
    /\ api_token \in {None, "", "tok"}
    /\ org_id \in {None, "", "o1"}
    /\ group_id \in {None, "g1"}
    /\ log_debug = FALSE
    /\ include_types = << >>
    /\ rejected_models = {}
    /\ search_keyword = ""
    /\ caller = "scan"
    /\ pc = "cli"
    /\ target = NoTarget
    /\ Idle

ProcessTarget ==
    \/ PtSubmit422 \/ PtSubmitFail \/ PtSubmitOk
    \/ PtSleep \/ PtPollOk \/ PtPollFail
    \/ PtFinalOk \/ PtFinalFail

Next ==
    \/ CliMain \/ ScanValidate
    \/ GetAllTargets \/ OrgsGetOk \/ OrgsGetError \/ OrgsGetInvalidUrl
    \/ OrgLoop \/ TargetsGetOk \/ TargetsGetFail \/ ExtendTargets
    \/ CheckTargets \/ ScanNext \/ ProcessTarget \/ ScanHandleResult \/ Report

Spec == Init /\ [][Next]_vars

\* the single thread of control keeps running until the command exits; the
\* service answers every request, and ends every job within MaxPolls polls
SpecLive == Init /\ [][Next]_vars /\ WF_vars(Next)

\* process_target called on one target by a caller that may have enabled DEBUG
\* logging, as search() and main() do with --debug
InitPT ==
    /\ api_token = "tok"
    /\ org_id = "o1"
    /\ group_id = None
    /\ log_debug \in BOOLEAN
    /\ include_types = << >>
    /\ rejected_models = {}
    /\ search_keyword = ""
    /\ caller = "direct"
    /\ pc = "pt_submit"
    /\ target \in TargetsOf("o1") \cup TargetsOf("o2")
    /\ Idle

NextPT == ProcessTarget

SpecPT == InitPT /\ [][NextPT]_vars


\* the classifier applied to one target of any integration type, or with the
\* nested path cut at any key
\* integration types a target can carry: the source-control kinds of the
\* service, and kinds and spellings that are on no list
ScmTypes ==
    {"github", "github-enterprise", "github-cloud-app", "github-server-app",
     "gitlab", "azure-repos", "bitbucket-cloud", "bitbucket-server",
     "bitbucket-cloud-app"}

OtherTypes == {"docker", "ecr", "cli", "GitHub", "git lab", ""}

ClassifierTargets ==
    {Target("t", "n", org, [integration |-> Integration(t)]) :
        org \in OrgIds, t \in ScmTypes \cup OtherTypes}
    \cup {Target("t", "n", org, integ) :
            org \in OrgIds,
            integ \in {EmptyDict,
                       [integration |-> EmptyDict],
                       [integration |-> [data |-> EmptyDict]],
                       [integration |-> [data |-> [attributes |-> EmptyDict]]]}}
    \cup {[id |-> "t", attributes |-> [display_name |-> n]] : n \in {"n", "m"}}

InitClassify ==
    /\ api_token = "tok"
    /\ org_id = "o1"
    /\ group_id = None
    /\ log_debug = FALSE
    /\ include_types = << >>
    /\ rejected_models = {}
    /\ search_keyword = ""
    /\ caller \in {"scan", "main"}
    /\ pc = "classify"
    /\ target \in ClassifierTargets
    /\ Idle

NextClassify == Classify

SpecClassify == InitClassify /\ [][NextClassify]_vars

\* the views rendered for a scan output of any content, with any --include
\* and any policy
ViewComps ==
    {CompsWithRoot, CompsNoRoot,
     <<Component("Root", "library"), Component("app", "application")>>,
     <<Component("GPT-4 ", "machine-learning-model"), [name |-> "noType"]>>}

ViewDocs == {NestedDoc(c) : c \in ViewComps} \cup {TopLevelDoc(c) : c \in ViewComps}

ViewEntries == {Entry(n, d) : n \in {"repoA", "repoB"}, d \in ViewDocs}

IncludeChoices == {<< >>, <<"ML Models">>, <<" library", "bogus">>, <<"bogus">>}

\* load_policy_file: rejected_models.add(model.strip().lower()) for every entry
\* of the `reject` list
LoadPolicyFile(reject_list) == {StripLower(reject_list[k]) : k \in DOMAIN reject_list}

\* the `reject` lists of the policy files; without --policy-file no set is
\* loaded, and the empty list loads the empty set, which is as falsy
PolicyFiles == {<< >>, <<"GPT-4 ">>, <<"torch", "bert">>}

PolicyChoices == {LoadPolicyFile(f) : f \in PolicyFiles}

InitViews ==
    /\ api_token = "tok"
    /\ org_id = "o1"
    /\ group_id = None
    /\ log_debug = FALSE
    /\ include_types \in IncludeChoices
    /\ rejected_models \in PolicyChoices
    /\ caller = "scan"
    /\ pc = "report"
    /\ target = NoTarget
    /\ exit_code = None
    /\ orgs = << >> /\ org_i = 1 /\ url = NoUrl /\ targets = << >>
    /\ page_log = << >> /\ n_get = 0 /\ fetch_ret = NoFetchRet
    /\ all_targets = << >> /\ i = 1
    /\ all_aiboms \in SeqsUpTo(ViewEntries, MaxEntries)
    /\ status = None /\ job_url = NoUrl /\ req_log = << >> /\ status_log = << >>
    /\ pt_ret = NoRet /\ final_doc = EmptyDict /\ outcomes = << >>
    /\ submit_failed = FALSE /\ last_submit = "" /\ accepted = FALSE
    /\ report = NoReport
    /\ views = NoViews
    /\ search_keyword = ""
    /\ matched_terms = << >> /\ found_in_targets = << >> /\ raised = ""

NextViews == Report

SpecViews == InitViews /\ [][NextViews]_vars

\* process_target_and_search alone: any target, any keyword, any answers of
\* the service, at either logging level
Keywords == {"bert", "bert,", "GPT-4 ,torch"}

InitPTS ==
    /\ api_token = "tok"
    /\ org_id = "o1"
    /\ group_id = None
    /\ log_debug \in BOOLEAN
    /\ include_types = << >>
    /\ rejected_models = {}
    /\ search_keyword \in Keywords
    /\ caller = "process_target_and_search"
    /\ pc = "pt_submit"
    /\ target \in TargetsOf("o1") \cup TargetsOf("o2")
    /\ Idle

NextPTS == ProcessTarget \/ PtsSearch

SpecPTS == InitPTS /\ [][NextPTS]_vars

\* the search command: token and organization from the environment, the group
\* through Config's SNYK_GROUP_ID fallback, --debug or not
InitSearch ==
    /\ api_token \in {None, "tok"}
    /\ org_id \in {None, "o1"}
    /\ group_id \in {None, "g1"}
    /\ log_debug \in BOOLEAN
    /\ include_types = << >>
    /\ rejected_models = {}
    /\ search_keyword \in Keywords
    /\ caller = "search"
    /\ pc = "search"
    /\ target = NoTarget
    /\ Idle

NextSearch ==
    \/ SearchPreflight
    \/ GetAllTargets \/ OrgsGetOk \/ OrgsGetError \/ OrgsGetInvalidUrl
    \/ OrgLoop \/ TargetsGetOk \/ TargetsGetFail \/ ExtendTargets
    \/ SearchCheckTargets \/ SearchNext

SpecSearch == InitSearch /\ [][NextSearch]_vars

\* ================================================================ claims

\* C1. process_target never raises to its caller: whatever the target, the
\* answers of the service and the logging level, it returns the artifact or an
\* empty result.
C1_NeverRaises == pt_ret.kind # "raise"

\* C3. Pagination completeness: once get_all_targets_from_org has returned after
\* n >= 1 successful pages, its value is the concatenation of the pages' data in
\* page order (its length the sum of the page sizes), exactly n GETs were
\* issued, every page but the last carried a next link and the last carried
\* none; while the listing is under way every page served so far carried one.
RECURSIVE SumLens(_)
SumLens(pages) ==
    IF pages = << >> THEN 0 ELSE Len(Head(pages).data) + SumLens(Tail(pages))

PageData(pages) == [k \in 1..Len(pages) |-> pages[k].data]

HasNext(page) == "next" \in DOMAIN page.links

C3_PaginationComplete ==
    /\ (pc = "targets_get" /\ n_get = Len(page_log)) =>
          \A k \in 1..Len(page_log) : HasNext(page_log[k])
    /\ (pc = "org_return" /\ fetch_ret.kind = "value") =>
          /\ Len(page_log) >= 1
          /\ fetch_ret.val = Flatten(PageData(page_log))
          /\ Len(fetch_ret.val) = SumLens(page_log)
          /\ n_get = Len(page_log)
          /\ \A k \in 1..(Len(page_log) - 1) : HasNext(page_log[k])
          /\ ~HasNext(page_log[Len(page_log)])

C3_Witness ==
    /\ pc = "org_return"
    /\ fetch_ret.kind = "value"
    /\ Len(page_log) = MaxPages
    /\ \A k \in 1..Len(page_log) : Len(page_log[k].data) >= 1
    /\ Len(fetch_ret.val) = MaxTargets

\* a GET of the listing under way was answered with an error
ListingFailed == n_get > Len(page_log)

\* C4. Pagination failure: when a page request of a listing fails, on the first
\* page or a later one, that request is the listing's last and the caller gets
\* a failure signal that carries no item: None from the targets listing, an
\* exception (ending the run) from the organizations listing.
C4_PaginationFailure ==
    ListingFailed =>
        /\ n_get = Len(page_log) + 1
        /\ \/ pc = "org_return" /\ fetch_ret = FetchNone
           \/ pc = "exited" /\ fetch_ret = NoFetchRet

C4_Witness ==
    /\ ListingFailed
    /\ pc = "org_return"
    /\ Len(page_log) >= 1
    /\ Len(targets) >= 1
    /\ fetch_ret = FetchNone

\* C5. Total fetch failure aborts the run: once a page request of the
\* organizations listing or of any organization's targets listing has failed,
\* the run ends with exit code 1, no job is ever submitted and no report is
\* produced, also when an earlier organization's targets had been fetched.
C5_FetchFailureAborts ==
    ListingFailed =>
        /\ \/ pc = "exited" /\ exit_code = "1"
           \/ pc = "org_return" /\ fetch_ret.kind = "None" /\ exit_code = None
        /\ req_log = << >>
        /\ last_submit = ""
        /\ outcomes = << >>
        /\ all_aiboms = << >>
        /\ report = NoReport

C5_Witness ==
    /\ ListingFailed
    /\ pc = "exited"
    /\ exit_code = "1"
    /\ org_i = 2
    /\ Len(all_targets) >= 1


\* the entries the scan output must hold given what process_target returned for
\* each worklist position: one per non-empty result, in worklist order
RECURSIVE SuccessEntries(_, _)
SuccessEntries(worklist, outs) ==
    IF worklist = << >> \/ outs = << >> THEN << >>
    ELSE (IF Head(outs).how = "returned" /\ Head(outs).val # << >>
          THEN <<[target_name |-> Head(worklist).attributes.display_name,
                  aibom_data |-> Head(outs).val]>>
          ELSE << >>)
         \o SuccessEntries(Tail(worklist), Tail(outs))

ClaimBaseKinds ==
    {"github", "github-enterprise", "gitlab", "azure-repos", "bitbucket-cloud"}

ClaimExtendedKinds ==
    ClaimBaseKinds \cup
    {"github-cloud-app", "github-server-app", "bitbucket-server", "bitbucket-cloud-app"}

\* every key of relationships.integration.data.attributes.integration_type is there
PathPresent(t) ==
    /\ "relationships" \in DOMAIN t
    /\ "integration" \in DOMAIN t.relationships
    /\ "data" \in DOMAIN t.relationships.integration
    /\ "attributes" \in DOMAIN t.relationships.integration.data
    /\ "integration_type" \in DOMAIN t.relationships.integration.data.attributes

\* C2. Batch isolation: in a run over supported targets in which some job
\* submission failed in transport, the run is not aborted, and at the final
\* report every target has been processed and the output holds exactly the
\* entries of the targets that returned an artifact, in worklist order.
C2_BatchIsolation ==
    (submit_failed /\ \A k \in 1..Len(all_targets) :
        PathPresent(all_targets[k]) /\
        all_targets[k].relationships.integration.data.attributes.integration_type
            \in ClaimExtendedKinds) =>
        /\ pc # "exited"
        /\ exit_code # "1"
        /\ pc \in {"report", "done"} =>
              /\ Len(outcomes) = Len(all_targets)
              /\ all_aiboms = SuccessEntries(all_targets, outcomes)

NonTerminalCount(log) ==
    Len(SelectSeq(log, LAMBDA s : s \notin {"finished", "errored"}))

C7_JobErrorPath ==
    (status_log # << >> /\ status_log[Len(status_log)] = "errored") =>
        /\ pc = "pt_return"
        /\ pt_ret = Returned(EmptyList)
        /\ FinalsIn(req_log) = << >>
        /\ Len(PollsIn(req_log)) = Len(status_log) - 1
        /\ req_log[Len(req_log)].op \in {"post", "get"}

C7_Witness ==
    /\ pc = "pt_return"
    /\ status_log = <<"pending", "errored">>
    /\ pt_ret = Returned(EmptyList)
    /\ Len(PollsIn(req_log)) = 1

\* C8. Unprocessable skip: a job whose POST was answered 422 has that POST as
\* its only log entry (no poll, no final fetch, no sleep) and process_target
\* has returned the empty result; the coordinator's next step moves on to the
\* next target, leaving the output as it was and the run alive.
C8_UnprocessableSkip ==
    [][/\ (req_log' # << >> /\ req_log'[1].code = "422") =>
             /\ Len(req_log') = 1
             /\ pc' = "pt_return"
             /\ pt_ret' = Returned(EmptyList)
       /\ (req_log # << >> /\ req_log[1].code = "422" /\ caller = "scan") =>
             /\ pc' = "loop"
             /\ i' = i + 1
             /\ all_aiboms' = all_aiboms
             /\ exit_code' = exit_code]_vars

C8_Witness ==
    /\ last_submit = "422"
    /\ pc = "pt_submit"
    /\ i = 2
    /\ outcomes = <<[how |-> "returned", val |-> EmptyList]>>
    /\ req_log = << >>

\* C9. Classifier membership: a target is accepted iff every key of the nested
\* path is present and the integration type is on the allow-list (the five
\* base kinds in main.py, the nine extended kinds in scan); any other string,
\* and any target with a key of the path missing, is rejected.
C9_ClassifierMembership ==
    pc = "classified" =>
        accepted =
            (/\ PathPresent(target)
             /\ target.relationships.integration.data.attributes.integration_type
                   \in IF caller = "main" THEN ClaimBaseKinds ELSE ClaimExtendedKinds)

C9_Witness ==
    /\ pc = "classified"
    /\ caller = "scan"
    /\ "relationships" \in DOMAIN target
    /\ "integration" \in DOMAIN target.relationships
    /\ "data" \notin DOMAIN target.relationships.integration
    /\ ~accepted

\* the example organization: a docker image, a github repository, a gitlab one
E2EWorklist ==
    <<Target("t1", "img", "o1", [integration |-> Integration("docker")]),
      Target("t2", "repoA", "o1", [integration |-> Integration("github")]),
      Target("t3", "repoB", "o1", [integration |-> Integration("gitlab")])>>

\* the Root component plus two others, in the documented shape
E2EArtifact ==
    [data |-> [attributes |-> [components |->
        <<[name |-> "Root", type |-> "application"],
          [name |-> "gpt-4", type |-> "machine-learning-model"],
          [name |-> "torch", type |-> "library"]>>]]]

E2ECase ==
    /\ all_targets = E2EWorklist
    /\ Len(outcomes) = 3
    /\ outcomes[2].how = "returned" /\ outcomes[2].val = E2EArtifact
    /\ last_submit = "422"

ArtifactComps(entry) ==
    IF "data" \in DOMAIN entry.aibom_data
    THEN entry.aibom_data.data.attributes.components
    ELSE entry.aibom_data.components

RootApp(c) ==
    /\ "name" \in DOMAIN c /\ c.name = "Root"
    /\ "type" \in DOMAIN c /\ c.type = "application"

\* the components of an entry that are not the Root application
NonRootOf(entry) == SelectSeq(ArtifactComps(entry), LAMBDA c : ~RootApp(c))

RECURSIVE NonRootCount(_)
NonRootCount(aiboms) ==
    IF aiboms = << >> THEN 0
    ELSE Len(NonRootOf(Head(aiboms))) + NonRootCount(Tail(aiboms))

RECURSIVE SumOver(_, _)
SumOver(f, S) ==
    IF S = {} THEN 0
    ELSE LET x == CHOOSE y \in S : TRUE IN f[x] + SumOver(f, S \ {x})

\* the rejected machine-learning models among the non-Root components
RECURSIVE RejectedCount(_, _)
RejectedCount(aiboms, rejected) ==
    IF aiboms = << >> THEN 0
    ELSE Len(SelectSeq(NonRootOf(Head(aiboms)),
                       LAMBDA c : /\ "type" \in DOMAIN c
                                  /\ c.type = "machine-learning-model"
                                  /\ (c.name \in rejected
                                      \/ (c.name = "GPT-4 " /\ "gpt-4" \in rejected))))
         + RejectedCount(Tail(aiboms), rejected)

Rendered == pc = "done" /\ all_aiboms # << >>

\* C11 as stated: with no include filter every view, policy validation
\* included, holds exactly the components that are not the Root application.
C11_EveryViewAllNonRoot ==
    (Rendered /\ include_types = << >>) =>
        /\ Len(views.table) = NonRootCount(all_aiboms)
        /\ views.total = NonRootCount(all_aiboms)
        /\ SumOver(views.types, DOMAIN views.types) = NonRootCount(all_aiboms)
        /\ Len(views.html_table) = NonRootCount(all_aiboms)
        /\ \A k \in 1..Len(all_aiboms) :
              views.repositories[k].ai_component_count = Len(NonRootOf(all_aiboms[k]))
        /\ rejected_models # {} =>
              /\ Len(views.forbidden) = NonRootCount(all_aiboms)
              /\ Len(views.html_forbidden) = NonRootCount(all_aiboms)

\* C11. Root exclusion: no view lists the Root application component. With no
\* include filter the console table and total, the per-type breakdown, the
\* HTML table and the per-repository counts leave out nothing else, so an
\* artifact of Root plus two others contributes exactly two entries to each;
\* policy validation lists, of the non-Root components, only the
\* machine-learning models whose normalised name is in the rejected set.
C11_RootExclusion ==
    Rendered =>
        /\ \A k \in 1..Len(views.table) :
              ~(views.table[k].name = "Root" /\ views.table[k].type = "Application")
        /\ \A k \in 1..Len(views.html_table) :
              ~(views.html_table[k].name = "Root"
                /\ views.html_table[k].type = "Application")
        /\ \A k \in 1..Len(all_aiboms) :
              views.repositories[k].ai_component_count = Len(NonRootOf(all_aiboms[k]))
        /\ include_types = << >> =>
              /\ Len(views.table) = NonRootCount(all_aiboms)
              /\ views.total = NonRootCount(all_aiboms)
              /\ SumOver(views.types, DOMAIN views.types) = NonRootCount(all_aiboms)
              /\ Len(views.html_table) = NonRootCount(all_aiboms)
              /\ views.html_total = NonRootCount(all_aiboms)
              /\ rejected_models # {} =>
                    /\ Len(views.forbidden) = RejectedCount(all_aiboms, rejected_models)
                    /\ views.html_forbidden = views.forbidden

C11_Witness ==
    /\ Rendered
    /\ include_types = << >>
    /\ rejected_models = {"gpt-4"}
    /\ all_aiboms = <<[target_name |-> "repoA",
                       aibom_data |-> [components |->
                          <<[name |-> "Root", type |-> "application"],
                            [name |-> "gpt-4", type |-> "machine-learning-model"],
                            [name |-> "torch", type |-> "library"]>>]]>>
    /\ views.total = 2
    /\ Len(views.html_table) = 2
    /\ views.repositories[1].ai_component_count = 2
    /\ Len(views.forbidden) = 1


\* the worklist positions processed so far whose target the classifier accepts
ProcessedSupported ==
    {k \in 1..Len(outcomes) : outcomes[k].how # "skipped"}

\* a is b with some positions left out
RECURSIVE IsSubseq(_, _)
IsSubseq(a, b) ==
    IF a = << >> THEN TRUE
    ELSE IF b = << >> THEN FALSE
    ELSE IF Head(a) = Head(b) THEN IsSubseq(Tail(a), Tail(b))
    ELSE IsSubseq(a, Tail(b))

\* at most one entry per processed supported target, and no more entries than
\* eligible targets
C12_EntriesBounded ==
    /\ Len(all_aiboms) <= Cardinality(ProcessedSupported)
    /\ Cardinality(ProcessedSupported)
          <= Cardinality({k \in 1..Len(all_targets) :
                 PathPresent(all_targets[k]) /\
                 all_targets[k].relationships.integration.data.attributes.integration_type
                     \in ClaimExtendedKinds})
    /\ IsSubseq(all_aiboms, SuccessEntries(all_targets, outcomes))

\* C12. Scan-result invariant: the entries are at most as many as the supported
\* targets processed so far, each worklist target contributes at most one, and
\* two entries carry the same target name only if the worklist holds the same
\* target at two positions.
C12_ScanResultInvariant ==
    /\ C12_EntriesBounded
    /\ \A j, k \in 1..Len(all_aiboms) :
          (j < k /\ all_aiboms[j].target_name = all_aiboms[k].target_name) =>
              \E p, q \in 1..Len(all_targets) :
                  p < q /\ all_targets[p].id = all_targets[q].id


\* C13. The run always completes: once the worklist has been fetched and is
\* being processed (no fatal precondition, no fetch failure), and with every
\* job ending in a terminal status or a failed request, the run eventually
\* reaches the end of the final report with every worklist target processed.
C13_RunCompletes ==
    (pc = "loop") ~> (pc = "done" /\ Len(outcomes) = Len(all_targets))


\* a configuration value that is absent or empty
Missing(x) == x \in {"None", ""}

\* C14. Fatal precondition: in a run configured without a token, or with
\* neither an organization nor a group, control never gets past the two
\* configuration checks: no page is requested, no job is submitted, polled or
\* fetched, and when the command has exited the exit code is 1.
C14_FatalPrecondition ==
    (Missing(api_token) \/ (Missing(org_id) /\ Missing(group_id))) =>
        /\ pc \in {"cli", "scan", "exited"}
        /\ pc = "scan" => ~(Missing(org_id) /\ Missing(group_id))
        /\ pc = "exited" => exit_code = "1"
        /\ n_get = 0 /\ page_log = << >> /\ orgs = << >> /\ all_targets = << >>
        /\ req_log = << >> /\ status_log = << >> /\ last_submit = ""
        /\ report = NoReport

C14_Witness ==
    /\ api_token = ""
    /\ org_id = "o1"
    /\ pc = "exited"
    /\ exit_code = "1"
    /\ n_get = 0
    /\ req_log = << >>


\* C15. Both artifact shapes are accepted: for every worklist position whose
\* job returned an artifact with its components at the top level, the run has
\* not been aborted, the output holds the (target name, artifact) entry, and
\* the finished report counts the artifact's non-Root components.
C15_BothShapesAccepted ==
    \A k \in 1..Len(outcomes) :
        (/\ outcomes[k].how = "returned"
         /\ outcomes[k].val # << >>
         /\ "components" \in DOMAIN outcomes[k].val) =>
            /\ pc # "exited"
            /\ exit_code # "1"
            /\ \E j \in 1..Len(all_aiboms) :
                  all_aiboms[j] = [target_name |-> all_targets[k].attributes.display_name,
                                   aibom_data |-> outcomes[k].val]
            /\ pc = "done" => views.total = NonRootCount(all_aiboms)


\* the URL about to be requested is the last page's links.next resolved against
\* the API base URL
NextResolved ==
    LET last == page_log[Len(page_log)] IN
      /\ "next" \in DOMAIN last.links
      /\ url = [abs |-> TRUE, link |-> last.links.next]

\* C16. Next-link resolution: in both listings, whenever a further page is
\* about to be requested after page k, the URL to request is page k's relative
\* links.next resolved against the API base URL.
C16_NextLinkResolution ==
    (pc \in {"orgs_get", "targets_get"} /\ page_log # << >>) => NextResolved


IsPollEntry(r) == r.op = "get" /\ ~r.allow_redirects

\* C17. Poll backoff: in a job's log every status poll is immediately preceded
\* by one sleep of 2 time units; every sleep is followed by a poll (or the poll
\* is the next step), so no two sleeps are adjacent and none precedes the final
\* fetch; and once a terminal status has been read no sleep follows.
C17_PollBackoff ==
    /\ \A k \in 1..Len(req_log) :
          /\ IsPollEntry(req_log[k]) =>
                k > 1 /\ req_log[k - 1] = [op |-> "sleep", secs |-> 2]
          /\ req_log[k].op = "sleep" =>
                IF k = Len(req_log) THEN pc = "pt_poll"
                ELSE IsPollEntry(req_log[k + 1])
    /\ (status_log # << >> /\ status_log[Len(status_log)] \in {"finished", "errored"}) =>
          /\ pc \notin {"pt_sleep", "pt_poll"}
          /\ req_log[Len(req_log)].op # "sleep"

C17_Witness ==
    /\ pc = "pt_return"
    /\ status_log = <<"pending", "pending", "finished">>
    /\ Len(req_log) = 6
    /\ req_log[2].op = "sleep" /\ IsPollEntry(req_log[3])
    /\ req_log[4].op = "sleep" /\ IsPollEntry(req_log[5])
    /\ req_log[6].op = "get" /\ req_log[6].allow_redirects


\* while a job has requests logged: the listings are over, every earlier
\* worklist position has its outcome, and every logged request is for the one
\* target at the current position
OneJobInFlight ==
    req_log # << >> =>
        /\ pc \in {"pt_sleep", "pt_poll", "pt_final", "pt_return"}
        /\ n_get = 0 /\ page_log = << >> /\ url = NoUrl /\ fetch_ret = NoFetchRet
        /\ i \in 1..Len(all_targets)
        /\ Len(outcomes) = i - 1
        /\ target = all_targets[i]
        /\ Len(PostsIn(req_log)) = 1
        /\ \A k \in 1..Len(req_log) :
              /\ req_log[k].op = "post" => req_log[k].target_id = all_targets[i].id
              /\ req_log[k].op = "get" =>
                    req_log[k].url.link = [kind |-> "ai_bom_job",
                                           scope |-> all_targets[i].id, page |-> 1]

\* C18. Strictly sequential run: no listing request is made once a job has
\* been submitted and the worklist is fixed from then on; every request of a
\* job is made while all earlier worklist targets have returned; the requests
\* in flight belong to one job at a time.
C18_StrictlySequential ==
    [][/\ OneJobInFlight'
       /\ last_submit # "" =>
             /\ n_get' = 0 /\ page_log' = << >>
             /\ all_targets' = all_targets
             /\ orgs' = orgs
       /\ req_log' # req_log /\ req_log' # << >> =>
             /\ Len(outcomes') = i' - 1
             /\ i' = i]_vars

C18_Witness ==
    /\ i = 2
    /\ Len(outcomes) = 1
    /\ outcomes[1].how = "returned"
    /\ pc = "pt_poll"
    /\ Len(req_log) = 2
    /\ target = all_targets[2]
    /\ all_targets[1] # all_targets[2]


\* the job under way has ended for the client: a terminal status was read, or
\* a poll failed
JobEnded ==
    \/ status_log # << >> /\ status_log[Len(status_log)] \in {"finished", "errored"}
    \/ \E k \in 1..Len(req_log) : IsPollEntry(req_log[k]) /\ req_log[k].code = "fail"

\* C19. Terminal states are final: once a terminal status has been read or a
\* poll has failed, no further status is read and the job's log grows by
\* nothing but the one redirect-following fetch, and by that only after
\* "finished"; no entry of a log is anything but the POST, a sleep or a GET
\* (there is no cancel request).
C19_TerminalFinal ==
    [][/\ JobEnded =>
             /\ status_log' \in {status_log, << >>}
             /\ \/ req_log' = req_log
                \/ req_log' = << >>
                \/ /\ status_log[Len(status_log)] = "finished"
                   /\ FinalsIn(req_log) = << >>
                   /\ \A k \in 1..Len(req_log) :
                         req_log[k].op = "get" => req_log[k].code # "fail"
                   /\ Len(req_log') = Len(req_log) + 1
                   /\ SubSeq(req_log', 1, Len(req_log)) = req_log
                   /\ req_log'[Len(req_log')].op = "get"
                   /\ req_log'[Len(req_log')].allow_redirects
       /\ \A k \in 1..Len(req_log') : req_log'[k].op \in {"post", "sleep", "get"}]_vars

C19_Witness ==
    /\ pc = "pt_return"
    /\ status_log = <<"pending">>
    /\ Len(req_log) = 3
    /\ IsPollEntry(req_log[3])
    /\ req_log[3].code = "fail"
    /\ pt_ret = Returned(EmptyList)


\* every answer of the job under way was a success with a status that is not
\* terminal
StillRunning ==
    /\ status_log # << >>
    /\ \A k \in 1..Len(status_log) : status_log[k] \notin {"finished", "errored"}
    /\ \A k \in 1..Len(req_log) : req_log[k].op # "sleep" => req_log[k].code = "2xx"

\* C20. No poll cap: as long as every poll of a job has been answered with a
\* status that is not terminal, however many there were, process_target has
\* not returned and its next step is the sleep or the poll of a further round;
\* the coordinator is still at that target, with no later target submitted.
C20_NoPollCap ==
    StillRunning =>
        /\ pc \in {"pt_sleep", "pt_poll"}
        /\ pt_ret = NoRet
        /\ Len(PollsIn(req_log)) = Len(status_log) - 1
        /\ Len(PostsIn(req_log)) = 1
        /\ caller = "scan" =>
              /\ target = all_targets[i]
              /\ Len(outcomes) = i - 1
              /\ req_log[1].target_id = all_targets[i].id

C20_Witness ==
    /\ StillRunning
    /\ Len(status_log) = MaxPolls
    /\ Len(PollsIn(req_log)) = MaxPolls - 1
    /\ pc = "pt_poll"
    /\ i < Len(all_targets)


\* the classifier's answer for a worklist target, from the claim's list
Eligible(t) ==
    /\ PathPresent(t)
    /\ t.relationships.integration.data.attributes.integration_type
          \in ClaimExtendedKinds

\* a POST is only ever the first request of the job of the accepted target at
\* the current position; the coordinator leaves a position behind with exactly
\* one POST logged if the target is accepted and with no request at all
\* otherwise; and it never goes back to a position, whatever the job's outcome
SubmitAtMostOnce ==
    [][/\ Len(PostsIn(req_log')) > Len(PostsIn(req_log)) =>
             /\ req_log = << >>
             /\ Len(req_log') = 1
             /\ caller = "scan" =>
                   /\ Eligible(all_targets[i])
                   /\ Len(outcomes) = i - 1
                   /\ req_log'[1].target_id = all_targets[i].id
                   /\ i' = i
       /\ (caller = "scan" /\ pc \notin {"cli", "scan", "get_all_targets", "orgs_get",
                                       "org_loop", "targets_get", "org_return",
                                       "check_targets"}) =>
             /\ i' \in {i, i + 1}
             /\ i' = i + 1 =>
                   /\ Len(outcomes') = i
                   /\ IF Eligible(all_targets[i])
                      THEN Len(PostsIn(req_log)) = 1 /\ outcomes'[i].how # "skipped"
                      ELSE req_log = << >> /\ req_log' = << >>
                           /\ outcomes'[i].how = "skipped"]_vars

\* the run that started on its worklist has ended
LoopEnded == pc \in {"done", "exited"} /\ outcomes # << >>

\* C21. A job-creation POST is issued for a worklist target iff the classifier
\* accepts it, and then exactly once per run: no POST is made for a target the
\* classifier rejects, none is repeated after a 422, a failure or an errored
\* job, and when the run has ended every accepted target of the worklist has
\* had its POST.
C21_SubmitIffSupported ==
    /\ SubmitAtMostOnce
    /\ [](LoopEnded =>
            \A k \in 1..Len(all_targets) :
                Eligible(all_targets[k]) =>
                    k <= Len(outcomes) /\ outcomes[k].how # "skipped")


\* the items of the pages, in the order the pages were served
RECURSIVE FlattenPages(_)
FlattenPages(pages) ==
    IF pages = << >> THEN << >>
    ELSE Get(Head(pages), "data", EmptyList) \o FlattenPages(Tail(pages))

\* the scope as resolved when the loop over the organizations begins
ScopeResolved ==
    (pc = "org_loop" /\ org_i = 1) =>
        IF TruthyStr(group_id)
        THEN orgs = FlattenPages(page_log)
        ELSE orgs = <<[id |-> org_id]>>

\* the worklist grows only by one organization's pages at a time, in the order
\* of the organizations, and the entries only by the target at the cursor
WorklistGrowth ==
    [][/\ ((pc = "org_return" /\ pc' = "org_loop") =>
              /\ all_targets' = all_targets \o FlattenPages(page_log)
              /\ org_i' = org_i + 1
              /\ \A k \in 1..Len(FlattenPages(page_log)) :
                     FlattenPages(page_log)[k].relationships.organization.data.id
                         = OrgIdOf(orgs[org_i]))
        /\ (~(pc = "org_return" /\ pc' = "org_loop") => all_targets' = all_targets)
        /\ (pc \notin {"get_all_targets", "orgs_get"} => orgs' = orgs)
        /\ (all_aiboms' # all_aiboms) =>
              /\ Len(all_aiboms') = Len(all_aiboms) + 1
              /\ SubSeq(all_aiboms', 1, Len(all_aiboms)) = all_aiboms
              /\ all_aiboms'[Len(all_aiboms')].target_name = TargetNameOf(all_targets[i])
              /\ i' = i + 1]_vars

EntryNames == [k \in 1..Len(all_aiboms) |-> all_aiboms[k].target_name]
WorklistNames == [k \in 1..Len(all_targets) |-> TargetNameOf(all_targets[k])]

FetchedFinished ==
    /\ status_log # << >>
    /\ status_log[Len(status_log)] = "finished"
    /\ FinalsIn(req_log) # << >>
    /\ FinalsIn(req_log)[1].code = "2xx"

\* C23. No partial artifact: process_target hands back the document of the
\* final fetch, unchanged, when the last status read was "finished" and that
\* fetch succeeded, and the empty result on every other path (422, submit
\* failure, poll failure, "errored", final-fetch failure).
C23_NoPartialArtifact ==
    pc = "pt_return" =>
        IF FetchedFinished
        THEN pt_ret = Returned(final_doc)
        ELSE pt_ret = Returned(EmptyList)


\* C24. Each job-creation POST is addressed to the organization that owns the
\* target, as named in the target's relationships, and carries the target's id
\* in its body; the single-organization scanner of src/main.py, which lists
\* the targets of its own organization only, addresses it to that organization.
C24_PostToOwningOrg ==
    /\ \A k \in 1..Len(req_log) :
          req_log[k].op = "post" =>
              /\ req_log[k].org = target.relationships.organization.data.id
              /\ req_log[k].target_id = target.id
              /\ caller = "scan" => target = all_targets[i]
    /\ org_id \in OrgIds =>
          \A t \in TargetsOf(org_id) :
              LegacyPostOrgOf(t) = t.relationships.organization.data.id

\* a group scan, an organization configured as well, has submitted a target of
\* another organization to that other organization
C24_Witness ==
    /\ TruthyStr(group_id) /\ org_id = "o1"
    /\ req_log # << >>
    /\ req_log[1].op = "post"
    /\ req_log[1].org = "o2"
    /\ req_log[1].target_id = "t5"


\* a component the policy forbids: not the Root application, a machine-learning
\* model, its name trimmed and lower-cased in the rejected set
IsViolation(c, rejected) ==
    /\ ~RootApp(c)
    /\ "type" \in DOMAIN c /\ c.type = "machine-learning-model"
    /\ "name" \in DOMAIN c
    /\ \/ c.name \in {"gpt-4", "torch", "bert"} \cap rejected
       \/ c.name = "GPT-4 " /\ "gpt-4" \in rejected

RECURSIVE Violations(_, _)
Violations(aiboms, rejected) ==
    IF aiboms = << >> THEN << >>
    ELSE LET e == Head(aiboms)
             hits == SelectSeq(ArtifactComps(e), LAMBDA c : IsViolation(c, rejected))
         IN [j \in 1..Len(hits) |-> [model_name |-> hits[j].name,
                                      target_name |-> e.target_name]]
            \o Violations(Tail(aiboms), rejected)

\* C25. Policy validation: the rejected set holds the policy's entries trimmed
\* and lower-cased; with a policy loaded the violations reported are exactly
\* the components that are not the Root application, are machine-learning
\* models and whose trimmed, lower-cased name is in the rejected set; the
\* console and the HTML report flag the same violations.
C25_PolicyValidation ==
    /\ \A m \in rejected_models : m \in {"gpt-4", "torch", "bert"}
    /\ (Rendered /\ rejected_models # {}) =>
          /\ views.html_forbidden = Violations(all_aiboms, rejected_models)
          /\ views.forbidden = views.html_forbidden


EmptyWorklist == pc = "check_targets" /\ all_targets = << >>

\* C27. An empty worklist is handled as a fetch failure: whenever the target
\* list obtained is empty, also when every listing request succeeded, the
\* command exits with a non-zero status, and no job is submitted and no report
\* rendered.
C27_EmptyWorklistExits ==
    /\ [](all_targets = << >> =>
             /\ pc \notin {"loop", "pt_submit", "pt_sleep", "pt_poll", "pt_final",
                           "pt_return", "report", "done"}
             /\ req_log = << >> /\ outcomes = << >> /\ all_aiboms = << >>
             /\ report = NoReport /\ views = NoViews
             /\ exit_code \in {None, "1"})
    /\ [][EmptyWorklist => (pc' = "exited" /\ exit_code' = "1")]_vars

\* every listing request succeeded, the scope holds no target, and the command
\* has exited with status 1
C27_Witness ==
    /\ pc = "exited" /\ exit_code = "1"
    /\ orgs # << >> /\ org_i = Len(orgs) + 1
    /\ all_targets = << >>
    /\ req_log = << >> /\ report = NoReport


\* the rows of a table, as a set
RowsOf(table) == {table[k] : k \in DOMAIN table}

\* C28. The console summary and the HTML report agree: for the same scan
\* output and the same include filter both list the same components, with the
\* same total and the same per-type counts, whatever the include value:
\* absent, naming known types, a mix of known and unknown, or only unknown.
C28_ConsoleHtmlAgree ==
    Rendered =>
        /\ RowsOf(views.table) = RowsOf(views.html_table)
        /\ Len(views.table) = Len(views.html_table)
        /\ views.total = views.html_total
        /\ views.types = views.html_types


\* process_target handed back the empty result
EmptyResult == pt_ret.kind = "value" /\ pt_ret.val = EmptyList

\* C29. process_target_and_search returns an empty list of matched terms
\* whenever processing the target yielded the empty result (422, submit or
\* poll failure, errored job, final-fetch failure), for every keyword,
\* a keyword with an empty term such as a trailing comma included.
C29_NoMatchWithoutArtifact ==
    (pc = "pts_return" /\ EmptyResult) => matched_terms = << >>


\* the search command has fetched a target list that is not empty
SearchLooping ==
    caller = "search" /\ found_in_targets = << >> /\ all_targets # << >>
    /\ org_i > Len(orgs)

\* C30. The search command classifies every fetched target without raising
\* and, for every non-empty target list, ends in its "Scan Complete" report:
\* it never stops in the loop on an exception.
C30_SearchCompletes ==
    /\ raised = ""
    /\ SearchLooping => pc # "exited"

====
